---------------------------- MODULE Spec2Model ----------------------------
(***************************************************************************)
(* Job lifecycle of the Telegram PDF -> Excel bot (src/app.py).            *)
(*                                                                         *)
(* Every upload (a call of handle_pdf) is one request r.  A request first  *)
(* runs the steps of handle_pdf on a Flask request thread and, when the    *)
(* worker thread is started, the steps of process_pdf_async on that        *)
(* thread; both are the positions of pc[r].  The /stop commands are        *)
(* handled one after the other by a thread of their own.  The registry     *)
(* active_jobs, the lock jobs_lock and the /tmp directory are shared.      *)
(*                                                                         *)
(* A critical section that only touches active_jobs is one atomic step;    *)
(* the lock is visible as held only where the code performs I/O inside     *)
(* the `with jobs_lock:` block.                                            *)
(***************************************************************************)
EXTENDS Integers, Sequences, FiniteSets, TLC

(***************************************************************************)
(* Bounds of the model.                                                    *)
(***************************************************************************)
MaxReq == 2
MaxPages == 30

Reqs == 1..MaxReq
Clients == {1, 2}

(***************************************************************************)
(* Program constants (src/app.py lines 40-42).                             *)
(***************************************************************************)
MAX_PAGES == 3000
MAX_FILE_SIZE_BYTES == 20971520
PROGRESS_STEPS == 10

(***************************************************************************)
(* Values.                                                                 *)
(***************************************************************************)
NoJob == 0
Free == <<"free">>
NoFile == [owner |-> 0, doc |-> "absent"]
NoPath == << >>

(***************************************************************************)
(* File names are sequences of tokens; the tokens ".pdf" and ".PDF" are    *)
(* the extension in lower case and in any other casing.                    *)
(***************************************************************************)
FileNames == { <<"a", ".pdf">>, <<"notes", ".txt">> }
Sizes == { 0, 1024, MAX_FILE_SIZE_BYTES, MAX_FILE_SIZE_BYTES + 1 }

\* the names above and a PDF whose extension is written in upper case
AllFileNames == FileNames \cup { <<"a", ".PDF">> }

\* str.lower() on one token
Lower(tok) == IF tok = ".PDF" THEN ".pdf" ELSE tok

\* document.file_name.lower().endswith(".pdf")
EndsWithPdf(name) == Len(name) > 0 /\ Lower(name[Len(name)]) = ".pdf"

\* f"/tmp/{document.file_name}"
PdfPath(name) == <<"/tmp/">> \o name

\* pdf_path.replace(".pdf", ".xlsx"): every exact occurrence, case-sensitive
ExcelPath(p) == [k \in DOMAIN p |-> IF p[k] = ".pdf" THEN ".xlsx" ELSE p[k]]

Paths ==
  { PdfPath(n) : n \in AllFileNames } \cup { ExcelPath(PdfPath(n)) : n \in AllFileNames }

(***************************************************************************)
(* Documents: what pdfplumber finds in an uploaded file.  A page's table   *)
(* is None, a list of rows, or an exception of extract_table().  A         *)
(* row is "data" (some cell has a value) or "blank" (every cell is None).  *)
(***************************************************************************)
Table(rows) == [kind |-> "rows", rows |-> rows]
NoneTable == [kind |-> "none", rows |-> << >>]
Raises == [kind |-> "raise", rows |-> << >>]

Scenario25 ==
  [k \in 1..25 |-> IF k <= 10 \/ k >= 20 THEN Table(<<"data">>) ELSE NoneTable]

\* page counts of the documents "p1", "p2", ...: every count up to MaxPages
\* and one above the ceiling of line 40
PageCounts == (1..MaxPages) \cup {MAX_PAGES + 1}
PagesDoc(n) == "p" \o ToString(n)
PageDocs == { PagesDoc(n) : n \in PageCounts }
NumPages(d) == CHOOSE n \in PageCounts : d = PagesDoc(n)

\* len(pdf.pages) = n; the first and the last page hold a table of one row
PagesOf(n) == [k \in 1..n |-> IF k = 1 \/ k = n THEN Table(<<"data">>) ELSE NoneTable]

DocPages(d) ==
  CASE d = "empty"    -> << >>
    [] d = "notable"  -> << NoneTable, Table(<< >>) >>
    [] d = "data"     -> << Raises, Table(<<"data">>) >>
    [] d = "blank"    -> << Table(<<"blank">>) >>
    [] d = "scenario" -> Scenario25
    [] d \in PageDocs -> PagesOf(NumPages(d))
    [] OTHER          -> << >>

\* documents pdfplumber.open() parses; anything else on disk makes it raise
Parseable == {"empty", "notable", "data", "blank", "scenario"} \cup PageDocs
Docs == {"empty", "notable", "data", "corrupt"}

Min(a, b) == IF a < b THEN a ELSE b
Max(a, b) == IF a > b THEN a ELSE b

VARIABLES
  pc,            \* [Reqs -> position in handle_pdf / process_pdf_async]
  chat,          \* chat_id of the request
  pdf_path,      \* pdf_path of the request (NoPath before it is computed)
  active_jobs,   \* [Clients -> request whose cancel_event/thread is stored, or NoJob]
  cancel_event,  \* [Reqs -> BOOLEAN] the Event created by the request
  jobs_lock,     \* Free or the thread holding jobs_lock
  fs,            \* [Paths -> file or NoFile] the /tmp directory
  pdf,           \* the document the worker has open
  total,         \* total_pages_to_process
  i,             \* pages processed by the loop
  ws,            \* rows appended to the worksheet
  outcome,       \* how the worker ended
  cause,         \* the step whose exception reached the except clause
  cancel_at,     \* page count quoted by the delivered cancellation notice
  late,          \* pages extracted while cancel_event was already set
  reports,       \* progress reports issued by the worker
  spc,           \* position in stop
  schat,         \* chat_id of the stop command
  sjob           \* the job the stop command read from active_jobs

vars == << pc, chat, pdf_path, active_jobs, cancel_event, jobs_lock, fs,
           pdf, total, i, ws, outcome, cause, cancel_at, late, reports,
           spc, schat, sjob >>

locals == << pdf, total, i, ws, outcome, cause, cancel_at >>
inputs == << chat, pdf_path >>
svars == << spc, schat, sjob >>

excel_path(r) == ExcelPath(pdf_path[r])

Init ==
  /\ pc = [r \in Reqs |-> "new"]
  /\ chat = [r \in Reqs |-> 0]
  /\ pdf_path = [r \in Reqs |-> NoPath]
  /\ active_jobs = [c \in Clients |-> NoJob]
  /\ cancel_event = [r \in Reqs |-> FALSE]
  /\ jobs_lock = Free
  /\ fs = [p \in Paths |-> NoFile]
  /\ pdf = [r \in Reqs |-> "absent"]
  /\ total = [r \in Reqs |-> 0]
  /\ i = [r \in Reqs |-> 0]
  /\ ws = [r \in Reqs |-> << >>]
  /\ outcome = [r \in Reqs |-> "none"]
  /\ cause = [r \in Reqs |-> "none"]
  /\ cancel_at = [r \in Reqs |-> -1]
  /\ late = [r \in Reqs |-> 0]
  /\ reports = [r \in Reqs |-> 0]
  /\ spc = "idle"
  /\ schat = 0
  /\ sjob = NoJob


\* the except clause of process_pdf_async is entered from step `why`
RaiseFrom(r, why) ==
  /\ pc' = [pc EXCEPT ![r] = "w_except"]
  /\ cause' = [cause EXCEPT ![r] = why]

(***************************************************************************)
(* handle_pdf                                                              *)
(***************************************************************************)
\* lines 223-251: the upload arrives, its file name one of names; extension
\* and size checks
ArriveOf(r, names) ==
  /\ pc[r] = "new"
  /\ IF r = 1 THEN TRUE ELSE pc[r - 1] # "new"
  /\ \E c \in (IF r = 1 THEN {1} ELSE Clients), name \in names, size \in Sizes :
       LET admitted == EndsWithPdf(name) /\ ~(size # 0 /\ size > MAX_FILE_SIZE_BYTES)
       IN /\ pc' = [pc EXCEPT ![r] =
                      IF ~EndsWithPdf(name) THEN "rejected_type"
                      ELSE IF size # 0 /\ size > MAX_FILE_SIZE_BYTES THEN "rejected_size"
                      ELSE "h_check"]
          /\ chat' = [chat EXCEPT ![r] = c]
          /\ pdf_path' = [pdf_path EXCEPT ![r] = IF admitted THEN PdfPath(name) ELSE NoPath]
  /\ UNCHANGED << active_jobs, cancel_event, jobs_lock, fs, late, reports >>
  /\ UNCHANGED locals /\ UNCHANGED svars

Arrive(r) == ArriveOf(r, FileNames)

\* lines 253-260: with jobs_lock: existing = active_jobs.get(chat_id)
HCheck(r) ==
  /\ pc[r] = "h_check"
  /\ jobs_lock = Free
  /\ IF active_jobs[chat[r]] # NoJob
       THEN /\ jobs_lock' = <<"handle_pdf", r>>
            /\ pc' = [pc EXCEPT ![r] = "h_reply_running"]
       ELSE /\ jobs_lock' = Free
            /\ pc' = [pc EXCEPT ![r] = "h_download"]
  /\ UNCHANGED << active_jobs, cancel_event, fs, late, reports >>
  /\ UNCHANGED locals /\ UNCHANGED inputs /\ UNCHANGED svars

\* the rejection of lines 255-260 made to drop the entry of the running job
HReplyRunningEvicts(r) ==
  /\ pc[r] = "h_reply_running"
  /\ jobs_lock = <<"handle_pdf", r>>
  /\ jobs_lock' = Free
  /\ active_jobs' = [active_jobs EXCEPT ![chat[r]] = NoJob]
  /\ pc' = [pc EXCEPT ![r] = "rejected_running"]
  /\ UNCHANGED << cancel_event, fs, late, reports >>
  /\ UNCHANGED locals /\ UNCHANGED inputs /\ UNCHANGED svars

\* lines 256-260: the already-running reply, sent while the lock is held
HReplyRunning(r) ==
  /\ pc[r] = "h_reply_running"
  /\ jobs_lock = <<"handle_pdf", r>>
  /\ jobs_lock' = Free
  /\ pc' = [pc EXCEPT ![r] = "rejected_running"]
  /\ UNCHANGED << active_jobs, cancel_event, fs, late, reports >>
  /\ UNCHANGED locals /\ UNCHANGED inputs /\ UNCHANGED svars

\* lines 262-273: download to pdf_path; it writes the uploaded document (one
\* of docs), fails, or fails part-way
HDownloadOf(r, docs) ==
  /\ pc[r] = "h_download"
  /\ \E res \in docs \cup {"fail", "partial"} :
       /\ fs' = IF res = "fail" THEN fs
                ELSE [fs EXCEPT ![pdf_path[r]] = [owner |-> r, doc |-> res]]
       /\ pc' = [pc EXCEPT ![r] = IF res \in docs THEN "h_status" ELSE "rejected_download"]
  /\ UNCHANGED << active_jobs, cancel_event, jobs_lock, late, reports >>
  /\ UNCHANGED locals /\ UNCHANGED inputs /\ UNCHANGED svars

HDownload(r) == HDownloadOf(r, Docs)

\* lines 275-276: status_message = message.reply_text("Starting ...")
HStatus(r) ==
  /\ pc[r] = "h_status"
  /\ \E ok \in BOOLEAN :
       /\ pc' = [pc EXCEPT ![r] = IF ok THEN "h_insert" ELSE "h_crashed"]
  /\ UNCHANGED << active_jobs, cancel_event, jobs_lock, fs, late, reports >>
  /\ UNCHANGED locals /\ UNCHANGED inputs /\ UNCHANGED svars

\* lines 278-289: a fresh Event and Thread are stored under chat_id
HInsert(r) ==
  /\ pc[r] = "h_insert"
  /\ jobs_lock = Free
  /\ active_jobs' = [active_jobs EXCEPT ![chat[r]] = r]
  /\ cancel_event' = [cancel_event EXCEPT ![r] = FALSE]
  /\ pc' = [pc EXCEPT ![r] = "h_thread"]
  /\ UNCHANGED << jobs_lock, fs, late, reports >>
  /\ UNCHANGED locals /\ UNCHANGED inputs /\ UNCHANGED svars

\* line 291: thread.start() starts the worker or raises RuntimeError
HThreadStart(r) ==
  /\ pc[r] = "h_thread"
  /\ \E ok \in BOOLEAN :
       pc' = [pc EXCEPT ![r] = IF ok THEN "w_start" ELSE "h_nostart"]
  /\ UNCHANGED << active_jobs, cancel_event, jobs_lock, fs, late, reports >>
  /\ UNCHANGED locals /\ UNCHANGED inputs /\ UNCHANGED svars

(***************************************************************************)
(* process_pdf_async                                                       *)
(***************************************************************************)
\* ws.max_row: 1 for a sheet without cells, else the last row holding cells
max_row(sheet) == Max(1, Len(sheet))

\* all(cell.value is None for cell in ws[1])
Row1AllNone(sheet) == Len(sheet) = 0 \/ sheet[1] = "blank"

\* the test of line 142 written against a sheet that reports 0 rows when empty
NoRowsWrittenFromZero(sheet) == max_row(sheet) = 0 /\ Row1AllNone(sheet)

\* line 142: the test for "no rows were written"
NoRowsWritten(sheet) == max_row(sheet) = 1 /\ Row1AllNone(sheet)

\* line 95: step = max(1, total_pages_to_process // PROGRESS_STEPS)
Step(n) == Max(1, n \div PROGRESS_STEPS)

\* line 127: page_num % step == 0 or page_num == total_pages_to_process
ReportsProgress(page_num, n) == page_num % Step(n) = 0 \/ page_num = n

\* lines 110-124: the rows page.extract_table() contributes (None, [] and an
\* exception contribute nothing)
RowsOf(table) == IF table.kind = "rows" THEN table.rows ELSE << >>

\* lines 61-66: the start notice
WStart(r) ==
  /\ pc[r] = "w_start"
  /\ \E ok \in BOOLEAN :
       /\ IF ok THEN pc' = [pc EXCEPT ![r] = "w_open"] /\ cause' = cause
                ELSE RaiseFrom(r, "start_notice")
  /\ UNCHANGED << active_jobs, cancel_event, jobs_lock, fs, late, reports >>
  /\ UNCHANGED << pdf, total, i, ws, outcome, cancel_at >>
  /\ UNCHANGED inputs /\ UNCHANGED svars

\* the page count taken without the ceiling of line 93
WOpenUnclamped(r) ==
  /\ pc[r] = "w_open"
  /\ LET f == fs[pdf_path[r]]
         n == Len(DocPages(f.doc))
     IN IF f.doc \notin Parseable
          THEN /\ RaiseFrom(r, "open")
               /\ UNCHANGED << pdf, total >>
          ELSE /\ pdf' = [pdf EXCEPT ![r] = f.doc]
               /\ total' = [total EXCEPT ![r] = n]
               /\ pc' = [pc EXCEPT ![r] = IF n = 0 THEN "w_empty_msg" ELSE "w_loop"]
               /\ cause' = cause
  /\ UNCHANGED << active_jobs, cancel_event, jobs_lock, fs, late, reports >>
  /\ UNCHANGED << i, ws, outcome, cancel_at >>
  /\ UNCHANGED inputs /\ UNCHANGED svars

\* lines 69-95: Workbook(), pdfplumber.open(pdf_path), the page count
WOpen(r) ==
  /\ pc[r] = "w_open"
  /\ LET f == fs[pdf_path[r]]
         n == Len(DocPages(f.doc))
     IN IF f.doc \notin Parseable
          THEN /\ RaiseFrom(r, "open")
               /\ UNCHANGED << pdf, total >>
          ELSE /\ pdf' = [pdf EXCEPT ![r] = f.doc]
               /\ total' = [total EXCEPT ![r] = Min(n, MAX_PAGES)]
               /\ pc' = [pc EXCEPT ![r] = IF n = 0 THEN "w_empty_msg" ELSE "w_loop"]
               /\ cause' = cause
  /\ UNCHANGED << active_jobs, cancel_event, jobs_lock, fs, late, reports >>
  /\ UNCHANGED << i, ws, outcome, cancel_at >>
  /\ UNCHANGED inputs /\ UNCHANGED svars

\* lines 77-83: the empty-document notice, then return
WEmptyMsg(r) ==
  /\ pc[r] = "w_empty_msg"
  /\ \E ok \in BOOLEAN :
       /\ IF ok THEN /\ pc' = [pc EXCEPT ![r] = "w_finally"]
                     /\ outcome' = [outcome EXCEPT ![r] = "EmptyDocument"]
                     /\ cause' = cause
                ELSE RaiseFrom(r, "empty_notice") /\ outcome' = outcome
  /\ UNCHANGED << active_jobs, cancel_event, jobs_lock, fs, late, reports >>
  /\ UNCHANGED << pdf, total, i, ws, cancel_at >>
  /\ UNCHANGED inputs /\ UNCHANGED svars

\* the page loop without the test of cancel_event (line 98)
WLoopUnchecked(r) ==
  /\ pc[r] = "w_loop"
  /\ pc' = [pc EXCEPT ![r] =
              IF i[r] < total[r]
                THEN "w_extract"
                ELSE IF NoRowsWritten(ws[r]) THEN "w_notable_msg" ELSE "w_save"]
  /\ UNCHANGED << active_jobs, cancel_event, jobs_lock, fs, late, reports >>
  /\ UNCHANGED locals /\ UNCHANGED inputs /\ UNCHANGED svars

\* lines 97-98 and 141-142: the top of the page loop (the cancel check), or,
\* after the last page, the test for an empty sheet
WLoop(r) ==
  /\ pc[r] = "w_loop"
  /\ pc' = [pc EXCEPT ![r] =
              IF i[r] < total[r]
                THEN IF cancel_event[r] THEN "w_cancel_msg" ELSE "w_extract"
                ELSE IF NoRowsWritten(ws[r]) THEN "w_notable_msg" ELSE "w_save"]
  /\ UNCHANGED << active_jobs, cancel_event, jobs_lock, fs, late, reports >>
  /\ UNCHANGED locals /\ UNCHANGED inputs /\ UNCHANGED svars

\* the cancellation notice quoting page_num = i + 1 instead of i (line 103)
WCancelMsgPageNum(r) ==
  /\ pc[r] = "w_cancel_msg"
  /\ \E ok \in BOOLEAN :
       /\ IF ok THEN /\ pc' = [pc EXCEPT ![r] = "w_finally"]
                     /\ outcome' = [outcome EXCEPT ![r] = "Cancelled"]
                     /\ cancel_at' = [cancel_at EXCEPT ![r] = i[r] + 1]
                     /\ cause' = cause
                ELSE RaiseFrom(r, "cancel_notice") /\ UNCHANGED << outcome, cancel_at >>
  /\ UNCHANGED << active_jobs, cancel_event, jobs_lock, fs, late, reports >>
  /\ UNCHANGED << pdf, total, i, ws >>
  /\ UNCHANGED inputs /\ UNCHANGED svars

\* lines 99-105: the cancellation notice quoting i, then return
WCancelMsg(r) ==
  /\ pc[r] = "w_cancel_msg"
  /\ \E ok \in BOOLEAN :
       /\ IF ok THEN /\ pc' = [pc EXCEPT ![r] = "w_finally"]
                     /\ outcome' = [outcome EXCEPT ![r] = "Cancelled"]
                     /\ cancel_at' = [cancel_at EXCEPT ![r] = i[r]]
                     /\ cause' = cause
                ELSE RaiseFrom(r, "cancel_notice") /\ UNCHANGED << outcome, cancel_at >>
  /\ UNCHANGED << active_jobs, cancel_event, jobs_lock, fs, late, reports >>
  /\ UNCHANGED << pdf, total, i, ws >>
  /\ UNCHANGED inputs /\ UNCHANGED svars

\* where the loop goes after page_num has been extracted
AfterPage(page_num, n) == IF ReportsProgress(page_num, n) THEN "w_progress" ELSE "w_loop"

\* the page loop without the try/except of lines 110-119: an exception of
\* extract_table() reaches the except clause of line 169
WExtractFatal(r) ==
  /\ pc[r] = "w_extract"
  /\ LET table == DocPages(pdf[r])[i[r] + 1]
     IN IF table.kind = "raise"
          THEN /\ RaiseFrom(r, "extract")
               /\ UNCHANGED << ws, i >>
          ELSE /\ ws' = [ws EXCEPT ![r] = @ \o RowsOf(table)]
               /\ i' = [i EXCEPT ![r] = @ + 1]
               /\ pc' = [pc EXCEPT ![r] = AfterPage(i[r] + 1, total[r])]
               /\ cause' = cause
  /\ late' = [late EXCEPT ![r] = IF cancel_event[r] THEN @ + 1 ELSE @]
  /\ UNCHANGED << active_jobs, cancel_event, jobs_lock, fs, reports >>
  /\ UNCHANGED << pdf, total, outcome, cancel_at >>
  /\ UNCHANGED inputs /\ UNCHANGED svars

\* lines 107-124: extract the table of page i+1 and append its rows
WExtract(r) ==
  /\ pc[r] = "w_extract"
  /\ LET table == DocPages(pdf[r])[i[r] + 1]
     IN /\ ws' = [ws EXCEPT ![r] = @ \o RowsOf(table)]
        /\ i' = [i EXCEPT ![r] = @ + 1]
        /\ pc' = [pc EXCEPT ![r] = AfterPage(i[r] + 1, total[r])]
  /\ late' = [late EXCEPT ![r] = IF cancel_event[r] THEN @ + 1 ELSE @]
  /\ UNCHANGED << active_jobs, cancel_event, jobs_lock, fs, reports >>
  /\ UNCHANGED << pdf, total, outcome, cause, cancel_at >>
  /\ UNCHANGED inputs /\ UNCHANGED svars

\* lines 129-139: the try/except around the progress report: delivered or
\* not, the loop goes on
OnProgress(r, ok) ==
  /\ pc' = [pc EXCEPT ![r] = "w_loop"]
  /\ cause' = cause

\* lines 126-139: the progress report
WProgress(r) ==
  /\ pc[r] = "w_progress"
  /\ \E ok \in BOOLEAN : OnProgress(r, ok)
  /\ reports' = [reports EXCEPT ![r] = @ + 1]
  /\ UNCHANGED << active_jobs, cancel_event, jobs_lock, fs, late >>
  /\ UNCHANGED << pdf, total, i, ws, outcome, cancel_at >>
  /\ UNCHANGED inputs /\ UNCHANGED svars

\* lines 142-148: the no-table notice, then return
WNoTableMsg(r) ==
  /\ pc[r] = "w_notable_msg"
  /\ \E ok \in BOOLEAN :
       /\ IF ok THEN /\ pc' = [pc EXCEPT ![r] = "w_finally"]
                     /\ outcome' = [outcome EXCEPT ![r] = "NoTableDetected"]
                     /\ cause' = cause
                ELSE RaiseFrom(r, "notable_notice") /\ outcome' = outcome
  /\ UNCHANGED << active_jobs, cancel_event, jobs_lock, fs, late, reports >>
  /\ UNCHANGED << pdf, total, i, ws, cancel_at >>
  /\ UNCHANGED inputs /\ UNCHANGED svars

\* line 151: wb.save(excel_path) writes the workbook, or raises with or
\* without a partly written file left behind
WSave(r) ==
  /\ pc[r] = "w_save"
  /\ \E res \in {"ok", "fail", "partial"} :
       /\ fs' = CASE res = "ok" ->
                       [fs EXCEPT ![excel_path(r)] = [owner |-> r, doc |-> "xlsx"]]
                  [] res = "partial" ->
                       [fs EXCEPT ![excel_path(r)] = [owner |-> r, doc |-> "partial"]]
                  [] OTHER -> fs
       /\ IF res = "ok" THEN pc' = [pc EXCEPT ![r] = "w_complete_msg"] /\ cause' = cause
                        ELSE RaiseFrom(r, "save")
  /\ UNCHANGED << active_jobs, cancel_event, jobs_lock, late, reports >>
  /\ UNCHANGED << pdf, total, i, ws, outcome, cancel_at >>
  /\ UNCHANGED inputs /\ UNCHANGED svars

\* lines 153-157: the completion notice
WCompleteMsg(r) ==
  /\ pc[r] = "w_complete_msg"
  /\ \E ok \in BOOLEAN :
       /\ IF ok THEN pc' = [pc EXCEPT ![r] = "w_send"] /\ cause' = cause
                ELSE RaiseFrom(r, "complete_notice")
  /\ UNCHANGED << active_jobs, cancel_event, jobs_lock, fs, late, reports >>
  /\ UNCHANGED << pdf, total, i, ws, outcome, cancel_at >>
  /\ UNCHANGED inputs /\ UNCHANGED svars

\* lines 159-167: open(excel_path) and send_document
WSend(r) ==
  /\ pc[r] = "w_send"
  /\ \E ok \in BOOLEAN :
       LET delivered == ok /\ fs[excel_path(r)] # NoFile
       IN IF delivered
            THEN /\ pc' = [pc EXCEPT ![r] = "w_finally"]
                 /\ outcome' = [outcome EXCEPT ![r] = "Completed"]
                 /\ cause' = cause
            ELSE RaiseFrom(r, "send") /\ outcome' = outcome
  /\ UNCHANGED << active_jobs, cancel_event, jobs_lock, fs, late, reports >>
  /\ UNCHANGED << pdf, total, i, ws, cancel_at >>
  /\ UNCHANGED inputs /\ UNCHANGED svars

\* lines 169-179: the generic error notice; its own failure is swallowed
WExcept(r) ==
  /\ pc[r] = "w_except"
  /\ outcome' = [outcome EXCEPT ![r] = "Failed"]
  /\ pc' = [pc EXCEPT ![r] = "w_finally"]
  /\ UNCHANGED << active_jobs, cancel_event, jobs_lock, fs, late, reports >>
  /\ UNCHANGED << pdf, total, i, ws, cause, cancel_at >>
  /\ UNCHANGED inputs /\ UNCHANGED svars

\* lines 180-183: with jobs_lock: active_jobs.pop(chat_id, None)
WFinally(r) ==
  /\ pc[r] = "w_finally"
  /\ jobs_lock = Free
  /\ active_jobs' = [active_jobs EXCEPT ![chat[r]] = NoJob]
  /\ pc' = [pc EXCEPT ![r] = "w_exists_pdf"]
  /\ UNCHANGED << cancel_event, jobs_lock, fs, late, reports >>
  /\ UNCHANGED locals /\ UNCHANGED inputs /\ UNCHANGED svars

\* line 185: os.path.exists(pdf_path)
WExistsPdf(r) ==
  /\ pc[r] = "w_exists_pdf"
  /\ pc' = [pc EXCEPT ![r] =
              IF fs[pdf_path[r]] # NoFile THEN "w_remove_pdf" ELSE "w_exists_xlsx"]
  /\ UNCHANGED << active_jobs, cancel_event, jobs_lock, fs, late, reports >>
  /\ UNCHANGED locals /\ UNCHANGED inputs /\ UNCHANGED svars

\* line 186: os.remove(pdf_path); FileNotFoundError ends the cleanup (line 189)
WRemovePdf(r) ==
  /\ pc[r] = "w_remove_pdf"
  /\ fs' = [fs EXCEPT ![pdf_path[r]] = NoFile]
  /\ pc' = [pc EXCEPT ![r] =
              IF fs[pdf_path[r]] # NoFile THEN "w_exists_xlsx" ELSE "done"]
  /\ UNCHANGED << active_jobs, cancel_event, jobs_lock, late, reports >>
  /\ UNCHANGED locals /\ UNCHANGED inputs /\ UNCHANGED svars

\* line 187: os.path.exists(excel_path)
WExistsXlsx(r) ==
  /\ pc[r] = "w_exists_xlsx"
  /\ pc' = [pc EXCEPT ![r] =
              IF fs[excel_path(r)] # NoFile THEN "w_remove_xlsx" ELSE "done"]
  /\ UNCHANGED << active_jobs, cancel_event, jobs_lock, fs, late, reports >>
  /\ UNCHANGED locals /\ UNCHANGED inputs /\ UNCHANGED svars

\* line 188: os.remove(excel_path)
WRemoveXlsx(r) ==
  /\ pc[r] = "w_remove_xlsx"
  /\ fs' = [fs EXCEPT ![excel_path(r)] = NoFile]
  /\ pc' = [pc EXCEPT ![r] = "done"]
  /\ UNCHANGED << active_jobs, cancel_event, jobs_lock, late, reports >>
  /\ UNCHANGED locals /\ UNCHANGED inputs /\ UNCHANGED svars

(***************************************************************************)
(* stop                                                                    *)
(***************************************************************************)
\* lines 208-213: with jobs_lock: job = active_jobs.get(chat_id)
StopLookup(c) ==
  /\ spc = "idle"
  /\ jobs_lock = Free
  /\ schat' = c
  /\ sjob' = active_jobs[c]
  /\ spc' = "s_got"
  /\ UNCHANGED << pc, active_jobs, cancel_event, jobs_lock, fs, late, reports >>
  /\ UNCHANGED locals /\ UNCHANGED inputs

\* lines 215-220: the no-active-job reply, or job["cancel_event"].set() and
\* the stop-requested reply; the handler returns
StopAct ==
  /\ spc = "s_got"
  /\ IF sjob = NoJob
       THEN UNCHANGED cancel_event
       ELSE /\ cancel_event' = [cancel_event EXCEPT ![sjob] = TRUE]
  /\ spc' = "idle"
  /\ schat' = 0
  /\ sjob' = NoJob
  /\ UNCHANGED << pc, active_jobs, jobs_lock, fs, late, reports >>
  /\ UNCHANGED locals /\ UNCHANGED inputs

(***************************************************************************)
(* The system.                                                             *)
(***************************************************************************)
Next ==
  \/ \E r \in Reqs : Arrive(r)
  \/ \E r \in Reqs : HCheck(r)
  \/ \E r \in Reqs : HReplyRunning(r)
  \/ \E r \in Reqs : HDownload(r)
  \/ \E r \in Reqs : HStatus(r)
  \/ \E r \in Reqs : HInsert(r)
  \/ \E r \in Reqs : HThreadStart(r)
  \/ \E r \in Reqs : WStart(r)
  \/ \E r \in Reqs : WOpen(r)
  \/ \E r \in Reqs : WEmptyMsg(r)
  \/ \E r \in Reqs : WLoop(r)
  \/ \E r \in Reqs : WCancelMsg(r)
  \/ \E r \in Reqs : WExtract(r)
  \/ \E r \in Reqs : WProgress(r)
  \/ \E r \in Reqs : WNoTableMsg(r)
  \/ \E r \in Reqs : WSave(r)
  \/ \E r \in Reqs : WCompleteMsg(r)
  \/ \E r \in Reqs : WSend(r)
  \/ \E r \in Reqs : WExcept(r)
  \/ \E r \in Reqs : WFinally(r)
  \/ \E r \in Reqs : WExistsPdf(r)
  \/ \E r \in Reqs : WRemovePdf(r)
  \/ \E r \in Reqs : WExistsXlsx(r)
  \/ \E r \in Reqs : WRemoveXlsx(r)
  \/ \E c \in Clients : StopLookup(c)
  \/ StopAct

Spec == Init /\ [][Next]_vars

(***************************************************************************)
(* Positions.                                                              *)
(***************************************************************************)
\* the request was turned away by handle_pdf with an admission error
Rejected == {"rejected_size", "rejected_running", "rejected_download"}

\* the worker thread is inside the try block of process_pdf_async
Running == {"w_start", "w_open", "w_empty_msg", "w_loop", "w_cancel_msg", "w_extract",
            "w_progress", "w_notable_msg", "w_save", "w_complete_msg", "w_send",
            "w_except"}

\* the job is stored in active_jobs (line 286) and its worker has not yet
\* executed the pop of line 183
NonTerminal(r) == pc[r] \in {"h_thread", "h_nostart", "w_finally"} \cup Running

\* the worker has left the try block: its outcome is decided
Terminal(r) == pc[r] \in {"w_finally", "w_exists_pdf", "w_remove_pdf", "w_exists_xlsx",
                          "w_remove_xlsx", "done"}

(***************************************************************************)
(* C1: single-flight admission.  At every instant at most one non-terminal *)
(* job exists per chat_id: of the start requests of one client at most one *)
(* is admitted before the matching completion.                             *)
(***************************************************************************)
C1_SingleFlight ==
  \A r1, r2 \in Reqs :
    (r1 # r2 /\ chat[r1] = chat[r2]) => ~(NonTerminal(r1) /\ NonTerminal(r2))

(***************************************************************************)
(* C2: cleanup on every exit path.  Once the worker of a job has returned, *)
(* neither the file it downloaded to pdf_path nor the workbook it saved to *)
(* excel_path is left in /tmp.                                             *)
(***************************************************************************)
C2_CleanupOnEveryExit ==
  \A r \in Reqs :
    pc[r] = "done" => /\ fs[pdf_path[r]].owner # r
                      /\ fs[excel_path(r)].owner # r

(***************************************************************************)
(* One conversion on its own: a single upload, processed while /stop       *)
(* commands arrive.  Every thread that can take a step eventually takes    *)
(* it: the handler and the worker never wait for anything but jobs_lock.   *)
(***************************************************************************)
JobStep ==
  \/ HCheck(1)
  \/ HDownload(1)
  \/ HStatus(1)
  \/ HInsert(1)
  \/ HThreadStart(1)
  \/ WStart(1)
  \/ WOpen(1)
  \/ WEmptyMsg(1)
  \/ WLoop(1)
  \/ WCancelMsg(1)
  \/ WExtract(1)
  \/ WProgress(1)
  \/ WNoTableMsg(1)
  \/ WSave(1)
  \/ WCompleteMsg(1)
  \/ WSend(1)
  \/ WExcept(1)
  \/ WFinally(1)
  \/ WExistsPdf(1)
  \/ WRemovePdf(1)
  \/ WExistsXlsx(1)
  \/ WRemoveXlsx(1)

NextJob ==
  \/ Arrive(1)
  \/ JobStep
  \/ \E c \in Clients : StopLookup(c)
  \/ StopAct

FairJob == Init /\ [][NextJob]_vars /\ WF_vars(JobStep) /\ WF_vars(StopAct)

(***************************************************************************)
(* One conversion on its own over a wider range of uploads: file names in  *)
(* either casing of the extension, documents of every page count up to     *)
(* MaxPages, a document longer than MAX_PAGES and a document whose only    *)
(* row has no cell values.                                                 *)
(***************************************************************************)
ArriveAny == ArriveOf(1, AllFileNames)

DownloadAny == HDownloadOf(1, Docs \cup {"blank"} \cup PageDocs)

WorkerStep ==
  \/ WStart(1)
  \/ WOpen(1)
  \/ WEmptyMsg(1)
  \/ WLoop(1)
  \/ WCancelMsg(1)
  \/ WExtract(1)
  \/ WProgress(1)
  \/ WNoTableMsg(1)
  \/ WSave(1)
  \/ WCompleteMsg(1)
  \/ WSend(1)
  \/ WExcept(1)
  \/ WFinally(1)
  \/ WExistsPdf(1)
  \/ WRemovePdf(1)
  \/ WExistsXlsx(1)
  \/ WRemoveXlsx(1)

NextAlone ==
  \/ ArriveAny
  \/ HCheck(1)
  \/ DownloadAny
  \/ HStatus(1)
  \/ HInsert(1)
  \/ HThreadStart(1)
  \/ WorkerStep
  \/ StopLookup(1)
  \/ StopAct

SpecAlone == Init /\ [][NextAlone]_vars

(***************************************************************************)
(* C3: registry release is unconditional and eventual.  Every job stored   *)
(* in active_jobs eventually has its worker reach a terminal outcome and   *)
(* pop the entry.                                                          *)
(***************************************************************************)
Released(r) == pc[r] \in {"w_exists_pdf", "w_remove_pdf", "w_exists_xlsx", "w_remove_xlsx", "done"}

C3_RegistryReleased ==
  \A r \in Reqs : (pc[r] = "h_thread") ~> (Released(r) /\ active_jobs[chat[r]] # r)

DownloadScenario == HDownloadOf(1, {"scenario"})

StopAfter12Lookup == i[1] = 12 /\ pc[1] \in Running /\ StopLookup(1)

StopAfter12Act == i[1] = 12 /\ StopAct

NextScenario ==
  \/ Arrive(1)
  \/ HCheck(1)
  \/ DownloadScenario
  \/ HStatus(1)
  \/ HInsert(1)
  \/ HThreadStart(1)
  \/ WStart(1)
  \/ WOpen(1)
  \/ WLoop(1)
  \/ WCancelMsg(1)
  \/ WExtract(1)
  \/ WProgress(1)
  \/ WSave(1)
  \/ WCompleteMsg(1)
  \/ WSend(1)
  \/ WExcept(1)
  \/ WFinally(1)
  \/ WExistsPdf(1)
  \/ WRemovePdf(1)
  \/ WExistsXlsx(1)
  \/ WRemoveXlsx(1)
  \/ StopAfter12Lookup
  \/ StopAfter12Act

SpecScenario == Init /\ [][NextScenario]_vars

C7_RejectedAdmissionNoEffect ==
  [][ \A r \in Reqs :
        /\ (pc[r] # pc'[r] /\ pc'[r] \in Rejected \cup {"h_reply_running"}) =>
              /\ active_jobs' = active_jobs
              /\ cancel_event' = cancel_event
              /\ \A c \in Clients : active_jobs'[c] # r
        /\ pc[r] \in Rejected => pc'[r] = pc[r] ]_vars

\* a request was rejected while the job of the same client kept running
C7_Witness ==
  \E r, q \in Reqs :
    pc[r] = "rejected_running" /\ active_jobs[chat[r]] = q /\ pc[q] \in Running

(***************************************************************************)
(* C8: the cancel request contract.  stop answers Accepted exactly when a  *)
(* non-terminal job of that client exists, and then sets the token of that *)
(* job and nothing else; otherwise it changes nothing.                     *)
(***************************************************************************)
C8_CancelContract ==
  [][ /\ (spc = "idle" /\ spc' = "s_got") =>
           /\ (sjob' # NoJob) <=> (\E r \in Reqs : chat[r] = schat' /\ NonTerminal(r))
           /\ \A r \in Reqs : (chat[r] = schat' /\ NonTerminal(r)) => sjob' = r
      /\ (spc = "s_got" /\ spc' = "idle") =>
           /\ \A r \in Reqs : cancel_event'[r] = (cancel_event[r] \/ r = sjob)
           /\ UNCHANGED << pc, active_jobs, fs >> ]_vars

(***************************************************************************)
(* C9: status updates are best-effort.  A notifier failure on the start    *)
(* notice or on a progress report never reaches the except clause, so it   *)
(* never changes the outcome of the job.                                   *)
(***************************************************************************)
C9_StatusBestEffort ==
  \A r \in Reqs : cause[r] \notin {"start_notice", "progress_notice"}

(***************************************************************************)
(* C10: a failing page extraction is not fatal.  The page contributes no   *)
(* rows, counts as processed, the loop goes on with the next page, the     *)
(* failure never reaches the except clause, and the rows of the other      *)
(* pages are what is saved.                                                *)
(***************************************************************************)
RECURSIVE RowsUpTo(_, _)
RowsUpTo(d, k) == IF k = 0 THEN << >> ELSE RowsUpTo(d, k - 1) \o RowsOf(DocPages(d)[k])

C10_ExtractionFailureNonFatal ==
  [][ \A r \in Reqs :
        /\ ( /\ pc[r] = "w_extract" /\ pc'[r] # "w_extract"
             /\ DocPages(pdf[r])[i[r] + 1].kind = "raise" ) =>
              /\ i'[r] = i[r] + 1
              /\ ws'[r] = ws[r]
              /\ pc'[r] \in {"w_loop", "w_progress"}
              /\ cause'[r] = cause[r]
              /\ outcome'[r] = outcome[r]
        /\ pc'[r] = "w_save" => ws'[r] = RowsUpTo(pdf'[r], total'[r])
        /\ cause'[r] # "extract" ]_vars

\* a job completed although the extraction of its first page raised
C10_Witness ==
  \E r \in Reqs :
    /\ outcome[r] = "Completed" /\ pdf[r] \in Parseable
    /\ DocPages(pdf[r])[1].kind = "raise"
    /\ ws[r] = <<"data">> /\ i[r] = 2



(***************************************************************************)
(* C11: artifact paths are unique per job.  Two jobs of different clients  *)
(* that are in flight at the same time never share a source or an output   *)
(* path, whatever file names were declared.                                *)
(***************************************************************************)
\* handle_pdf has computed the paths of the request (line 263) and the
\* request has not yet returned from handle_pdf or from its worker
InFlight(r) ==
  pc[r] \in {"h_download", "h_status", "h_insert", "h_thread", "w_finally", "w_exists_pdf",
             "w_remove_pdf", "w_exists_xlsx", "w_remove_xlsx"} \cup Running

C11_PathsUniquePerJob ==
  \A r1, r2 \in Reqs :
    (r1 # r2 /\ chat[r1] # chat[r2] /\ InFlight(r1) /\ InFlight(r2)) =>
       {pdf_path[r1], excel_path(r1)} \cap {pdf_path[r2], excel_path(r2)} = {}

(***************************************************************************)
(* C12: progress counters are monotone and bounded.  The number of pages   *)
(* processed never decreases, grows by exactly one with every processed    *)
(* page and by nothing else, never exceeds the page total, and neither     *)
(* exceeds MAX_PAGES: of a longer document only the first MAX_PAGES pages  *)
(* are processed.                                                          *)
(***************************************************************************)
C12_ProgressMonotoneBounded ==
  [][ \A r \in Reqs :
        /\ i'[r] \in {i[r], i[r] + 1}
        /\ (i'[r] = i[r] + 1) <=> (pc[r] = "w_extract" /\ pc'[r] # "w_extract")
        /\ i'[r] <= total'[r]
        /\ total'[r] <= MAX_PAGES
        /\ total[r] # 0 => total'[r] = total[r]
        /\ (pc'[r] = "w_save" /\ pdf'[r] = PagesDoc(MAX_PAGES + 1)) =>
              (i'[r] = MAX_PAGES /\ ws'[r] = <<"data">>) ]_vars

\* a document of MAX_PAGES + 1 pages was converted: MAX_PAGES pages processed
C12_Witness ==
  \E r \in Reqs :
    /\ pdf[r] = PagesDoc(MAX_PAGES + 1) /\ outcome[r] = "Completed"
    /\ i[r] = MAX_PAGES /\ total[r] = MAX_PAGES

(***************************************************************************)
(* C13: terminal ordering of the worker.  The worker deletes the files of  *)
(* its job before it removes the job from active_jobs, so the files of a   *)
(* job are gone when a later job of the client can be admitted, and the    *)
(* cleanup of a job never deletes a file of another job.                   *)
(***************************************************************************)
C13_TerminalOrdering ==
  [][ \A r \in Reqs :
        /\ (pc[r] = "w_finally" /\ pc'[r] # "w_finally") =>
              /\ fs[pdf_path[r]].owner # r
              /\ fs[excel_path(r)].owner # r
        /\ \A p \in Paths :
              (pc[r] # pc'[r] /\ fs[p] # NoFile /\ fs'[p] = NoFile) => fs[p].owner = r ]_vars

(***************************************************************************)
(* C14: notification ordering per job.  Progress reports show a percentage *)
(* of at most 100, none is issued after the terminal notification, and     *)
(* once the notice of one terminal outcome has been issued no notice of a  *)
(* different outcome is issued for the job.                                *)
(***************************************************************************)
\* line 128: percent = int(page_num * 100 / total_pages_to_process)
Percent(page_num, n) == (page_num * 100) \div n

\* the terminal outcomes whose notice the worker has issued so far: the
\* completion notice of lines 153-157 precedes send_document, the error
\* notice of lines 173-177 is issued by the except clause, the notices of
\* lines 78, 100 and 143 are followed by return
Announced(r) ==
  (IF pc[r] = "w_send" \/ cause[r] = "send" \/ outcome[r] = "Completed"
     THEN {"Completed"} ELSE {})
  \cup
  (IF outcome[r] \in {"EmptyDocument", "Cancelled", "NoTableDetected", "Failed"}
     THEN {outcome[r]} ELSE {})

C14_NotificationOrdering ==
  \A r \in Reqs :
    /\ pc[r] = "w_progress" => (reports[r] <= i[r] /\ Percent(i[r], total[r]) <= 100)
    /\ Announced(r) # {} => pc[r] \notin {"w_loop", "w_extract", "w_progress"}
    /\ Cardinality(Announced(r)) <= 1

(***************************************************************************)
(* C15: no I/O under the registry lock.  A thread that holds jobs_lock     *)
(* only reads or writes active_jobs: it is never at a notifier call, a     *)
(* download or a file operation.                                           *)
(***************************************************************************)
\* the positions at which a request thread or worker performs I/O
AtIO(r) ==
  pc[r] \in {"h_reply_running", "h_download", "h_status", "w_start", "w_open",
             "w_empty_msg", "w_cancel_msg", "w_extract", "w_progress", "w_notable_msg",
             "w_save", "w_complete_msg", "w_send", "w_except", "w_exists_pdf",
             "w_remove_pdf", "w_exists_xlsx", "w_remove_xlsx"}

C15_NoIOUnderLock ==
  \A r \in Reqs : jobs_lock = <<"handle_pdf", r>> => ~AtIO(r)

(***************************************************************************)
(* C16: progress throttling.  Whatever the page count, a run issues at     *)
(* most PROGRESS_STEPS progress reports, plus at most one for the final    *)
(* page.                                                                   *)
(***************************************************************************)
C16_ProgressThrottled ==
  \A r \in Reqs : reports[r] <= PROGRESS_STEPS + 1

(***************************************************************************)
(* C17: non-empty results complete.  A run that processed all its pages    *)
(* without an exception and appended at least one row to the sheet, even   *)
(* a row whose cells are all empty, ends Completed with the file sent; it  *)
(* is never reported as NoTableDetected.                                   *)
(***************************************************************************)
C17_NonEmptyCompletes ==
  \A r \in Reqs :
    (Terminal(r) /\ i[r] = total[r] /\ ws[r] # << >> /\ cause[r] = "none") =>
       outcome[r] = "Completed"

(***************************************************************************)
(* C18: the registry entry tracks the running worker.  From the start of   *)
(* the worker thread of a job until that worker pops the entry in its own  *)
(* cleanup, active_jobs[chat_id] holds the cancel_event of that job, so a  *)
(* stop of the client reaches the running worker.                          *)
(***************************************************************************)
C18_EntryTracksWorker ==
  \A r \in Reqs : pc[r] \in Running \cup {"w_finally"} => active_jobs[chat[r]] = r

(***************************************************************************)
(* C19: source and output paths of a job are distinct.  For every file     *)
(* name that passes the extension check of handle_pdf the derived          *)
(* excel_path differs from pdf_path and ends in .xlsx, so saving the       *)
(* workbook never overwrites the downloaded document.                      *)
(***************************************************************************)
C19_OutputPathDistinct ==
  \A r \in Reqs :
    InFlight(r) =>
      /\ excel_path(r) # pdf_path[r]
      /\ excel_path(r)[Len(excel_path(r))] = ".xlsx"

(***************************************************************************)
(* C20: no artifact leak at admission.  Every file that handle_pdf writes  *)
(* to pdf_path is eventually deleted, also when no worker ends up running  *)
(* (the download fails part-way, the status reply fails, the thread does   *)
(* not start), and then no entry of the request stays in active_jobs.      *)
(***************************************************************************)
\* the file at pdf_path is the one the request downloaded
HoldsSource(r) == pdf_path[r] # NoPath /\ fs[pdf_path[r]].owner = r

C20_NoLeakAtAdmission ==
  \A r \in Reqs :
    HoldsSource(r) ~> (~HoldsSource(r) /\ \A c \in Clients : active_jobs[c] # r)

=============================================================================
